---- MODULE Spec2Model ----
(***************************************************************************)
(* A model of carlosb::object_pool (src/object_pool.hpp): the pool core    *)
(* `impl` (arena, free-list, arena lock, acquisition-ordering lock and     *)
(* condition variable) and the move-only handle `acquired_object`.         *)
(*                                                                         *)
(* Every critical section guarded by m_mutex is one atomic step; what      *)
(* happens outside that lock (taking m_acq_mutex, parking on the condition *)
(* variable, notify_one) is a step of its own.  An address of the arena is *)
(* a pair <<base, index>>; a reallocation moves the arena to another base. *)
(* Undefined behaviour sets `undefined` and ends the run with any of its    *)
(* outcomes; `ndebug` says whether the build compiles assert() out, and a   *)
(* failed assert ends the run with abort().                                *)
(***************************************************************************)
EXTENDS Integers, Sequences, FiniteSets, TLC

(* ------------------------------ bounds --------------------------------- *)
NThreads == 3        \* threads that exist
NWorkers == 2        \* threads that run concurrently in the specifications of general use
NHandles == 2        \* handle variables of one thread
MaxInit == 2         \* largest `count` given to a constructor
MaxSize == 2         \* push/emplace/resize are not called beyond this m_size
MaxFree == 2         \* push/emplace are not called with more free-list entries than this
MaxBase == 1         \* arena base addresses are 0..MaxBase
MaxVal == 1          \* values of _Tp are 0..MaxVal

(* -------------------------- program constants -------------------------- *)
DefaultCapacity == 4
SizeBits == 4        \* width of size_type in the model (arithmetic is mod 2^SizeBits)

Threads == 1..NThreads
Workers == 1..(IF NWorkers < NThreads THEN NWorkers ELSE NThreads)
HandleIds == 1..NHandles
Bases == 0..MaxBase
Values == 0..MaxVal
DefaultValue == 0                       \* _Tp()
Uninit == -1                            \* raw, never constructed storage
SizeMod == 2 ^ SizeBits
MaxCap == IF 2 * MaxSize > DefaultCapacity THEN 2 * MaxSize ELSE DefaultCapacity
Indices == 0..(MaxSize - 1)            \* the slots that are ever constructed
Addr == Bases \X Indices                \* _Tp* into some arena
NullPtr == <<-1, 0>>                    \* nullptr
Indeterminate == <<-2, 0>>              \* an m_obj that was never assigned
NoThread == 0

VARIABLES
    m_pool,        \* base of the current arena
    m_free,        \* stack of free addresses, top is the last element
    m_size,        \* managed count
    m_capacity,
    cells,         \* contents of the current arena, by index
    m_acq_mutex,   \* owner of the acquisition-ordering lock, or NoThread
    pc,            \* position of each thread
    timed,         \* thread's acquire_wait was given a non-zero time_limit
    dst,           \* handle variable that receives the result of the running call
    hnd,           \* hnd[t][k]: the handle variables of thread t
    undefined,     \* the program has executed undefined behaviour
    ndebug,        \* the build defines NDEBUG: assert() expands to nothing
    front,         \* the object_pool front-end (its shared_ptr<impl>) exists
    core_destroyed,\* ~impl has run: the arena is deallocated
    copy,          \* the impl of a second front-end copy-constructed from the first
    obs,           \* obs[t]: the reads and the result of thread t's in_use() call
    m_mutex        \* the thread that holds m_mutex across steps, or NoThread

vars == <<m_pool, m_free, m_size, m_capacity, cells, m_acq_mutex, pc, timed, dst, hnd,
          undefined, ndebug, front, core_destroyed, copy, obs, m_mutex>>
lifeVars == <<front, copy, obs>>
poolVars == <<m_pool, m_free, m_size, m_capacity, cells>>

(* ------------------------------ helpers -------------------------------- *)
Top(s) == s[Len(s)]
Pop(s) == SubSeq(s, 1, Len(s) - 1)
Count(a, s) == Cardinality({i \in 1..Len(s) : s[i] = a})
SubMod(a, b) == (a - b + SizeMod) % SizeMod      \* size_type subtraction

(* ------------------------- acquired_object ----------------------------- *)
\* a handle variable that does not exist (not yet constructed, or destroyed)
Dead == [alive |-> FALSE, m_obj |-> NullPtr, m_pool |-> FALSE, m_is_initialized |-> FALSE]

\* acquired_object(), acquired_object(none_t), acquired_object(nullptr_t)
HandleNone == [alive |-> TRUE, m_obj |-> Indeterminate, m_pool |-> FALSE, m_is_initialized |-> FALSE]

\* acquired_object(_Tp* obj, shared_ptr<impl> lender)
HandleOf(a) == [alive |-> TRUE, m_obj |-> a, m_pool |-> TRUE, m_is_initialized |-> TRUE]

\* acquired_object(acquired_object&& other): the new object
MoveCtorNew(other) ==
    [alive |-> TRUE, m_obj |-> other.m_obj, m_pool |-> other.m_pool,
     m_is_initialized |-> other.m_is_initialized]

\* the move constructor with m_pool copied instead of moved
MoveCtorOtherCopiesPool(other) == [other EXCEPT !.m_obj = NullPtr]

\* acquired_object(acquired_object&& other): what is left of other
MoveCtorOther(other) == [other EXCEPT !.m_obj = NullPtr, !.m_pool = FALSE]

\* operator=(acquired_object&& other): *this afterwards
MoveAssignThis(this, other) ==
    [alive |-> TRUE, m_obj |-> other.m_obj, m_pool |-> other.m_pool,
     m_is_initialized |-> other.m_is_initialized]

\* a move assignment that copies other.m_pool instead of moving it
MoveAssignOtherKeepsPool(other) ==
    [other EXCEPT !.m_obj = NullPtr, !.m_is_initialized = FALSE]

\* operator=(acquired_object&& other): what is left of other
MoveAssignOther(other) ==
    [other EXCEPT !.m_obj = NullPtr, !.m_pool = FALSE, !.m_is_initialized = FALSE]

\* a deleter that never reaches return_object
DeleterNeverReturns(h) == FALSE

\* deleter::operator(): m_pool_ptr.lock() succeeds, so return_object is called
DeleterReturns(h) == h.m_pool

\* explicit operator bool of the handle
HandleBool(h) == h.m_is_initialized

\* the handle owns a slot: destroying it gives the slot back
Holding(h) == h.alive /\ h.m_pool

(* ------------------------------ observers ------------------------------ *)
\* a size() that reports the managed count
SizeIsManagedCount == m_size

size == Len(m_free)
managed_count == m_size
capacity == m_capacity
in_use == SubMod(managed_count, size) > 0
empty == (size = 0)
OperatorBool == size > 0

(* ---------------------- state outside the first impl ------------------ *)
\* no second front-end has been constructed
NoCopy == [state |-> "none", m_size |-> 0, m_capacity |-> 0, m_free |-> << >>,
           cells |-> [i \in Indices |-> Uninit]]

\* thread t has not called in_use()
NoObs == [order |-> "none", first |-> 0, result |-> "none"]

(* -------------------------------- Init --------------------------------- *)
\* impl(alloc): the empty pool
InitDefault ==
    /\ m_size = 0
    /\ m_capacity = DefaultCapacity
    /\ m_free = << >>
    /\ cells = [i \in Indices |-> Uninit]

\* a counted constructor that builds the objects but leaves the free-list empty
InitCountNoFree(count, value) ==
    /\ m_size = count
    /\ m_capacity = count
    /\ m_free = << >>
    /\ cells = [i \in Indices |-> IF i < count THEN value ELSE Uninit]

\* impl(count, value, alloc) and impl(count, alloc)
InitCount(count, value) ==
    /\ m_size = count
    /\ m_capacity = count
    /\ m_free = [i \in 1..count |-> <<0, i - 1>>]
    /\ cells = [i \in Indices |-> IF i < count THEN value ELSE Uninit]

Init ==
    /\ m_pool = 0
    /\ \/ InitDefault
       \/ \E count \in 0..MaxInit, value \in Values : InitCount(count, value)
    /\ m_acq_mutex = NoThread
    /\ pc = [t \in Threads |-> "idle"]
    /\ timed = [t \in Threads |-> FALSE]
    /\ dst = [t \in Threads |-> 1]
    /\ hnd = [t \in Threads |-> [k \in HandleIds |-> Dead]]
    /\ undefined = FALSE
    /\ ndebug \in BOOLEAN
    /\ front = TRUE
    /\ core_destroyed = FALSE
    /\ copy = NoCopy
    /\ obs = [t \in Threads |-> NoObs]
    /\ m_mutex = NoThread

(* ------------------------- shared building blocks ---------------------- *)
\* the program is running: no step is defined after undefined behaviour, and
\* there is none after abort()
Live == ~undefined /\ \A w \in Threads : pc[w] # "aborted"

\* thread t is at `where`
At(t, where) == Live /\ pc[t] = where

\* lock_guard lock_pool(m_mutex) can be taken: a step that takes and releases
\* m_mutex within itself needs the mutex to be free
LockFree == m_mutex = NoThread

Parked == {w \in Threads : pc[w] = "aw_parked"}

\* notify_all instead of notify_one: every parked thread is woken
NotifyAll(t, next) ==
    pc' = [w \in Threads |-> IF w = t THEN next
                             ELSE IF pc[w] = "aw_parked" THEN "aw_relock" ELSE pc[w]]

\* std::condition_variable::notify_one called by t, which then goes to `next`:
\* one parked thread, if there is one, is woken; otherwise the call is lost
NotifyOne(t, next) ==
    IF Parked = {}
    THEN pc' = [pc EXCEPT ![t] = next]
    ELSE \E w \in Parked : pc' = [pc EXCEPT ![t] = next, ![w] = "aw_relock"]

\* an impl that dies with its front-end, whatever the handles refer to
NoRefsFrontOnly(h, f, p) == ~f

\* no shared_ptr<impl> is left, so ~impl runs: the front-end (f) is gone, no
\* handle (h) has m_pool set, and no handle that is being destroyed or
\* assigned to is still inside return_object (p)
NoRefs(h, f, p) ==
    /\ ~f
    /\ \A t \in Threads, k \in HandleIds : ~(h[t][k].alive /\ h[t][k].m_pool)
    /\ \A t \in Threads : p[t] # "ro_notify"

\* the free-list after ~acquired_object has run on h (deleter, return_object)
FreeAfterDestroy(h, free) == IF DeleterReturns(h) THEN Append(free, h.m_obj) ELSE free

\* ~acquired_object: assert(m_is_initialized) lets the destructor go on
AssertHolds(h) == ndebug \/ h.m_is_initialized

\* a failed assert calls abort()
Abort(t) == pc' = [pc EXCEPT ![t] = "aborted"]

\* impl::reallocate(count): the arena after the memcpy of m_size objects
ReallocCells == [i \in Indices |-> IF i < m_size THEN cells[i] ELSE Uninit]

\* the base a fresh allocation may get while the old arena is still allocated
ReallocBases == Bases \ {m_pool}

\* the variable a newly declared handle of thread t lives in
HasFresh(t) == \E k \in HandleIds : ~hnd[t][k].alive
FreshId(t) == CHOOSE k \in HandleIds :
                  ~hnd[t][k].alive /\ \A j \in HandleIds : j < k => hnd[t][j].alive

(* ----------------------------- impl::acquire --------------------------- *)
\* acquire() without the m_free.empty() test: it hands out the first slot
AcquireUnchecked(t) ==
    /\ At(t, "idle")
    /\ LockFree
    /\ front
    /\ HasFresh(t)
    /\ hnd' = [hnd EXCEPT ![t][FreshId(t)] =
                  HandleOf(IF m_free = << >> THEN <<m_pool, 0>> ELSE Top(m_free))]
    /\ m_free' = IF m_free = << >> THEN m_free ELSE Pop(m_free)
    /\ UNCHANGED <<ndebug, m_mutex, lifeVars, core_destroyed, m_pool, m_size, m_capacity, cells, m_acq_mutex, pc, timed, dst, undefined>>

\* auto k = pool.acquire();
Acquire(t) ==
    /\ At(t, "idle")
    /\ LockFree
    /\ front
    /\ HasFresh(t)
    /\ IF m_free = << >>
       THEN /\ hnd' = [hnd EXCEPT ![t][FreshId(t)] = HandleNone]
            /\ UNCHANGED m_free
       ELSE LET obj == HandleOf(Top(m_free))
                rest == MoveCtorOther(obj)       \* the local after return std::move(obj)
            IN /\ AssertHolds(rest)                 \* m_is_initialized is still true
               /\ hnd' = [hnd EXCEPT ![t][FreshId(t)] = MoveCtorNew(obj)]
               /\ m_free' = FreeAfterDestroy(rest, Pop(m_free))
    /\ UNCHANGED <<ndebug, m_mutex, lifeVars, core_destroyed, m_pool, m_size, m_capacity, cells, m_acq_mutex, pc, timed, dst, undefined>>

(* --------------------------- impl::acquire_wait ------------------------ *)
\* auto k = pool.acquire_wait(time_limit): time_limit is zero (tl = FALSE)
\* or positive (tl = TRUE)
AwStart(t, tl) ==
    /\ At(t, "idle")
    /\ front
    /\ HasFresh(t)
    /\ pc' = [pc EXCEPT ![t] = "aw_lock"]
    /\ timed' = [timed EXCEPT ![t] = tl]
    /\ dst' = [dst EXCEPT ![t] = FreshId(t)]
    /\ UNCHANGED <<ndebug, m_mutex, lifeVars, core_destroyed, poolVars, m_acq_mutex, hnd, undefined>>

\* std::unique_lock<mutex_type> acq_lock(m_acq_mutex)
AwLock(t) ==
    /\ At(t, "aw_lock")
    /\ m_acq_mutex = NoThread
    /\ m_acq_mutex' = t
    /\ pc' = [pc EXCEPT ![t] = "aw_pred"]
    /\ UNCHANGED <<ndebug, m_mutex, lifeVars, core_destroyed, poolVars, timed, dst, hnd, undefined>>

\* a wait that does not test its predicate
AwPredNoCheck(t) ==
    /\ At(t, "aw_pred")
    /\ LockFree
    /\ pc' = [pc EXCEPT ![t] = "aw_pop"]
    /\ UNCHANGED <<ndebug, m_mutex, lifeVars, core_destroyed, poolVars, m_acq_mutex, timed, dst, hnd, undefined>>

\* the predicate !this->empty() of wait / wait_for, evaluated with acq_lock held
AwPred(t) ==
    /\ At(t, "aw_pred")
    /\ LockFree
    /\ pc' = [pc EXCEPT ![t] = IF ~empty THEN "aw_pop" ELSE "aw_wait"]
    /\ UNCHANGED <<ndebug, m_mutex, lifeVars, core_destroyed, poolVars, m_acq_mutex, timed, dst, hnd, undefined>>

\* a wait that parks the thread without releasing acq_lock
AwWaitKeepsLock(t) ==
    /\ At(t, "aw_wait")
    /\ pc' = [pc EXCEPT ![t] = "aw_parked"]
    /\ UNCHANGED <<ndebug, m_mutex, lifeVars, core_destroyed, poolVars, m_acq_mutex, timed, dst, hnd, undefined>>

\* the predicate was false: the thread releases acq_lock and parks, atomically
AwWait(t) ==
    /\ At(t, "aw_wait")
    /\ m_acq_mutex' = NoThread
    /\ pc' = [pc EXCEPT ![t] = "aw_parked"]
    /\ UNCHANGED <<ndebug, m_mutex, lifeVars, core_destroyed, poolVars, timed, dst, hnd, undefined>>

\* a spurious wake-up of a parked thread
AwSpurious(t) ==
    /\ At(t, "aw_parked")
    /\ pc' = [pc EXCEPT ![t] = "aw_relock"]
    /\ UNCHANGED <<ndebug, m_mutex, lifeVars, core_destroyed, poolVars, m_acq_mutex, timed, dst, hnd, undefined>>

\* the time limit of wait_for elapses while the thread is parked
AwTimeout(t) ==
    /\ At(t, "aw_parked")
    /\ timed[t]
    /\ pc' = [pc EXCEPT ![t] = "aw_relock_to"]
    /\ UNCHANGED <<ndebug, m_mutex, lifeVars, core_destroyed, poolVars, m_acq_mutex, timed, dst, hnd, undefined>>

\* a wait that returns on the wake-up alone, without testing the predicate again
AwRelockPops(t) ==
    /\ Live
    /\ pc[t] \in {"aw_relock", "aw_relock_to"}
    /\ m_acq_mutex = NoThread
    /\ m_acq_mutex' = t
    /\ pc' = [pc EXCEPT ![t] = IF pc[t] = "aw_relock" THEN "aw_pop" ELSE "aw_final"]
    /\ UNCHANGED <<ndebug, m_mutex, lifeVars, core_destroyed, poolVars, timed, dst, hnd, undefined>>

\* a woken thread takes acq_lock again before wait returns
AwRelock(t) ==
    /\ Live
    /\ pc[t] \in {"aw_relock", "aw_relock_to"}
    /\ m_acq_mutex = NoThread
    /\ m_acq_mutex' = t
    /\ pc' = [pc EXCEPT ![t] = IF pc[t] = "aw_relock" THEN "aw_pred" ELSE "aw_final"]
    /\ UNCHANGED <<ndebug, m_mutex, lifeVars, core_destroyed, poolVars, timed, dst, hnd, undefined>>

\* a timed-out acquire_wait that returns without releasing acq_lock
AwFinalKeepsLock(t) ==
    /\ At(t, "aw_final")
    /\ LockFree
    /\ IF ~empty
       THEN /\ pc' = [pc EXCEPT ![t] = "aw_pop"]
            /\ UNCHANGED <<hnd, timed, dst>>
       ELSE /\ pc' = [pc EXCEPT ![t] = "idle"]
            /\ hnd' = [hnd EXCEPT ![t][dst[t]] = HandleNone]
            /\ timed' = [timed EXCEPT ![t] = FALSE]
            /\ dst' = [dst EXCEPT ![t] = 1]
    /\ UNCHANGED <<ndebug, m_mutex, lifeVars, core_destroyed, poolVars, m_acq_mutex, undefined>>

\* wait_for after a timeout: it returns pred(); false makes acquire_wait
\* return acquired_object(none), and acq_lock is released by its destructor
AwFinal(t) ==
    /\ At(t, "aw_final")
    /\ LockFree
    /\ IF ~empty
       THEN /\ pc' = [pc EXCEPT ![t] = "aw_pop"]
            /\ UNCHANGED <<m_acq_mutex, hnd, timed, dst>>
       ELSE /\ pc' = [pc EXCEPT ![t] = "idle"]
            /\ m_acq_mutex' = NoThread
            /\ hnd' = [hnd EXCEPT ![t][dst[t]] = HandleNone]
            /\ timed' = [timed EXCEPT ![t] = FALSE]
            /\ dst' = [dst EXCEPT ![t] = 1]
    /\ UNCHANGED <<ndebug, m_mutex, lifeVars, core_destroyed, poolVars, undefined>>

\* m_free.top() and m_free.pop(); on an empty std::stack both are undefined:
\* top() yields any address, pop() leaves the stack empty or holding garbage
TopOutcomes == IF m_free # << >> THEN {Top(m_free)} ELSE Addr
PopOutcomes == IF m_free # << >> THEN {Pop(m_free)} ELSE {<< >>} \cup {<<a>> : a \in Addr}

\* the critical section: obj = acquired_object(m_free.top(), ...); m_free.pop().
\* The temporary is destroyed, moved-from, at the end of the assignment.
AwPop(t) ==
    /\ At(t, "aw_pop")
    /\ LockFree
    /\ \E a \in TopOutcomes, rest \in PopOutcomes :
         LET obj == HandleNone                    \* acquired_object obj;
             tmp == HandleOf(a)                   \* the temporary
             old == FreeAfterDestroy(obj, rest)   \* operator= returns *this first
             gone == MoveAssignOther(tmp)         \* the temporary is destroyed
         IN IF AssertHolds(gone)
            THEN /\ hnd' = [hnd EXCEPT ![t][dst[t]] = MoveAssignThis(obj, tmp)]
                 /\ m_free' = FreeAfterDestroy(gone, old)
                 /\ pc' = [pc EXCEPT ![t] = "aw_unlock"]
            ELSE /\ Abort(t)
                 /\ UNCHANGED <<hnd, m_free>>
    /\ undefined' = (undefined \/ m_free = << >>)
    /\ UNCHANGED <<ndebug, m_mutex, lifeVars, core_destroyed, m_pool, m_size, m_capacity, cells, m_acq_mutex, timed, dst>>

\* acq_lock.unlock()
AwUnlock(t) ==
    /\ At(t, "aw_unlock")
    /\ m_acq_mutex' = NoThread
    /\ pc' = [pc EXCEPT ![t] = "aw_notify"]
    /\ UNCHANGED <<ndebug, m_mutex, lifeVars, core_destroyed, poolVars, timed, dst, hnd, undefined>>

\* an acquire_wait that returns after unlocking, without the notify_one
AwNoNotify(t) ==
    /\ At(t, "aw_notify")
    /\ pc' = [pc EXCEPT ![t] = "idle"]
    /\ LET obj == hnd[t][dst[t]]
           rest == MoveCtorOther(obj)
       IN /\ AssertHolds(rest)
          /\ hnd' = [hnd EXCEPT ![t][dst[t]] = MoveCtorNew(obj)]
          /\ m_free' = FreeAfterDestroy(rest, m_free)
    /\ timed' = [timed EXCEPT ![t] = FALSE]
    /\ dst' = [dst EXCEPT ![t] = 1]
    /\ UNCHANGED <<ndebug, m_mutex, lifeVars, core_destroyed, m_pool, m_size, m_capacity, cells, m_acq_mutex, undefined>>

\* m_objects_availabe.notify_one(); return std::move(obj)
AwNotify(t) ==
    /\ At(t, "aw_notify")
    /\ NotifyOne(t, "idle")
    /\ LET obj == hnd[t][dst[t]]
           rest == MoveCtorOther(obj)
       IN /\ AssertHolds(rest)                      \* m_is_initialized is still true
          /\ hnd' = [hnd EXCEPT ![t][dst[t]] = MoveCtorNew(obj)]
          /\ m_free' = FreeAfterDestroy(rest, m_free)
    /\ timed' = [timed EXCEPT ![t] = FALSE]
    /\ dst' = [dst EXCEPT ![t] = 1]
    /\ UNCHANGED <<ndebug, m_mutex, lifeVars, core_destroyed, m_pool, m_size, m_capacity, cells, m_acq_mutex, undefined>>

(* ------------------------ impl::push / impl::emplace ------------------- *)
\* push/emplace that grows the arena by one slot instead of doubling it
PushGrowsByOne(t, value) ==
    /\ At(t, "idle")
    /\ LockFree
    /\ front
    /\ m_size < MaxSize
    /\ Len(m_free) < MaxFree
    /\ IF m_size = m_capacity
       THEN \E b \in ReallocBases :
              /\ m_pool' = b
              /\ m_capacity' = m_capacity + 1
              /\ cells' = [ReallocCells EXCEPT ![m_size] = value]
              /\ m_free' = Append(m_free, <<b, m_size>>)
       ELSE /\ cells' = [cells EXCEPT ![m_size] = value]
            /\ m_free' = Append(m_free, <<m_pool, m_size>>)
            /\ UNCHANGED <<m_pool, m_capacity>>
    /\ m_size' = m_size + 1
    /\ undefined' \in (IF m_size >= m_capacity' THEN BOOLEAN ELSE {FALSE})
    /\ pc' = [pc EXCEPT ![t] = "push_notify"]
    /\ UNCHANGED <<ndebug, m_mutex, lifeVars, core_destroyed, m_acq_mutex, timed, dst, hnd>>

\* push/emplace that constructs the object but does not put it on the free-list
PushNotFreed(t, value) ==
    /\ At(t, "idle")
    /\ LockFree
    /\ front
    /\ m_size < MaxSize
    /\ Len(m_free) < MaxFree
    /\ IF m_size = m_capacity
       THEN \E b \in ReallocBases :
              /\ m_pool' = b
              /\ m_capacity' = m_capacity * 2
              /\ cells' = [ReallocCells EXCEPT ![m_size] = value]
       ELSE /\ cells' = [cells EXCEPT ![m_size] = value]
            /\ UNCHANGED <<m_pool, m_capacity>>
    /\ m_size' = m_size + 1
    /\ undefined' \in (IF m_size >= m_capacity' THEN BOOLEAN ELSE {FALSE})
    /\ pc' = [pc EXCEPT ![t] = "push_notify"]
    /\ UNCHANGED <<ndebug, m_mutex, lifeVars, core_destroyed, m_free, m_acq_mutex, timed, dst, hnd>>

\* the critical section of push(const&), push(&&) and emplace(args...);
\* constructing at m_pool + m_size when m_size >= m_capacity (a pool built
\* with count 0 stays at capacity 0 * 2) writes outside the arena
Push(t, value) ==
    /\ At(t, "idle")
    /\ LockFree
    /\ front
    /\ m_size < MaxSize
    /\ Len(m_free) < MaxFree
    /\ IF m_size = m_capacity
       THEN \E b \in ReallocBases :
              /\ m_pool' = b
              /\ m_capacity' = m_capacity * 2
              /\ cells' = [ReallocCells EXCEPT ![m_size] = value]
              /\ m_free' = Append(m_free, <<b, m_size>>)
       ELSE /\ cells' = [cells EXCEPT ![m_size] = value]
            /\ m_free' = Append(m_free, <<m_pool, m_size>>)
            /\ UNCHANGED <<m_pool, m_capacity>>
    /\ m_size' = m_size + 1
    /\ undefined' \in (IF m_size >= m_capacity' THEN BOOLEAN ELSE {FALSE})
    /\ pc' = [pc EXCEPT ![t] = "push_notify"]
    /\ UNCHANGED <<ndebug, m_mutex, lifeVars, core_destroyed, m_acq_mutex, timed, dst, hnd>>

\* the calls of push/emplace that have not constructed their object yet
PendingPush == Cardinality({w \in Threads : pc[w] \in {"push_lock", "push_body"}})

\* push/emplace step by step.  The call:
PushCall(t) ==
    /\ At(t, "idle")
    /\ front
    /\ m_size + PendingPush < MaxSize
    /\ Len(m_free) + PendingPush < MaxFree
    /\ pc' = [pc EXCEPT ![t] = "push_lock"]
    /\ UNCHANGED <<ndebug, m_mutex, lifeVars, core_destroyed, poolVars, m_acq_mutex, timed, dst, hnd, undefined>>

\* lock_guard lock_pool(m_mutex)
PushLock(t) ==
    /\ At(t, "push_lock")
    /\ LockFree
    /\ m_mutex' = t
    /\ pc' = [pc EXCEPT ![t] = "push_body"]
    /\ UNCHANGED <<ndebug, lifeVars, core_destroyed, poolVars, m_acq_mutex, timed, dst, hnd, undefined>>

\* a push that calls acquire_wait() inside its critical section
PushBodyThenWaits(t, value) ==
    /\ At(t, "push_body")
    /\ IF m_size = m_capacity
       THEN \E b \in ReallocBases :
              /\ m_pool' = b
              /\ m_capacity' = m_capacity * 2
              /\ cells' = [ReallocCells EXCEPT ![m_size] = value]
              /\ m_free' = Append(m_free, <<b, m_size>>)
       ELSE /\ cells' = [cells EXCEPT ![m_size] = value]
            /\ m_free' = Append(m_free, <<m_pool, m_size>>)
            /\ UNCHANGED <<m_pool, m_capacity>>
    /\ m_size' = m_size + 1
    /\ undefined' \in (IF m_size >= m_capacity' THEN BOOLEAN ELSE {FALSE})
    /\ pc' = [pc EXCEPT ![t] = "aw_lock"]
    /\ UNCHANGED <<ndebug, m_mutex, lifeVars, core_destroyed, m_acq_mutex, timed, dst, hnd>>

\* the body of the critical section, T's constructor included, and the end
\* of the scope of lock_pool
PushBody(t, value) ==
    /\ At(t, "push_body")
    /\ IF m_size = m_capacity
       THEN \E b \in ReallocBases :
              /\ m_pool' = b
              /\ m_capacity' = m_capacity * 2
              /\ cells' = [ReallocCells EXCEPT ![m_size] = value]
              /\ m_free' = Append(m_free, <<b, m_size>>)
       ELSE /\ cells' = [cells EXCEPT ![m_size] = value]
            /\ m_free' = Append(m_free, <<m_pool, m_size>>)
            /\ UNCHANGED <<m_pool, m_capacity>>
    /\ m_size' = m_size + 1
    /\ undefined' \in (IF m_size >= m_capacity' THEN BOOLEAN ELSE {FALSE})
    /\ m_mutex' = NoThread
    /\ pc' = [pc EXCEPT ![t] = "push_notify"]
    /\ UNCHANGED <<ndebug, lifeVars, core_destroyed, m_acq_mutex, timed, dst, hnd>>

\* m_objects_availabe.notify_one() after the lock of push is released
PushNotify(t) ==
    /\ At(t, "push_notify")
    /\ NotifyOne(t, "idle")
    /\ UNCHANGED <<ndebug, m_mutex, lifeVars, core_destroyed, poolVars, m_acq_mutex, timed, dst, hnd, undefined>>

(* ------------------ acquired_object: destructor and moves -------------- *)
\* ~acquired_object, and with it deleter::operator() and the critical
\* section of impl::return_object
Destroy(t, k) ==
    /\ At(t, "idle")
    /\ DeleterReturns(hnd[t][k]) => LockFree
    /\ hnd[t][k].alive
    /\ IF AssertHolds(hnd[t][k])
       THEN /\ m_free' = FreeAfterDestroy(hnd[t][k], m_free)
            /\ pc' = [pc EXCEPT ![t] = IF DeleterReturns(hnd[t][k]) THEN "ro_notify" ELSE "idle"]
            /\ hnd' = [hnd EXCEPT ![t][k] = Dead]
       ELSE /\ Abort(t)
            /\ UNCHANGED <<hnd, m_free>>
    /\ UNCHANGED <<ndebug, m_mutex, lifeVars, core_destroyed, m_pool, m_size, m_capacity, cells, m_acq_mutex, timed, dst, undefined>>

\* m_objects_availabe.notify_one() of impl::return_object
RoNotify(t) ==
    /\ At(t, "ro_notify")
    /\ NotifyOne(t, "idle")
    /\ core_destroyed' = (core_destroyed \/ NoRefs(hnd, front, pc'))
    /\ UNCHANGED <<ndebug, m_mutex, lifeVars, poolVars, m_acq_mutex, timed, dst, hnd, undefined>>

\* acquired_object k(std::move(j))
MoveConstruct(t, j) ==
    /\ At(t, "idle")
    /\ HasFresh(t)
    /\ hnd[t][j].alive
    /\ hnd' = [hnd EXCEPT ![t][FreshId(t)] = MoveCtorNew(hnd[t][j]),
                          ![t][j] = MoveCtorOther(hnd[t][j])]
    /\ UNCHANGED <<ndebug, m_mutex, lifeVars, core_destroyed, poolVars, m_acq_mutex, pc, timed, dst, undefined>>

\* k = std::move(j): the slot of k goes back to the pool first
MoveAssign(t, k, j) ==
    /\ At(t, "idle")
    /\ DeleterReturns(hnd[t][k]) => LockFree
    /\ k # j
    /\ hnd[t][k].alive
    /\ hnd[t][j].alive
    /\ m_free' = FreeAfterDestroy(hnd[t][k], m_free)
    /\ pc' = [pc EXCEPT ![t] = IF DeleterReturns(hnd[t][k]) THEN "ro_notify" ELSE "idle"]
    /\ hnd' = [hnd EXCEPT ![t][k] = MoveAssignThis(hnd[t][k], hnd[t][j]),
                          ![t][j] = MoveAssignOther(hnd[t][j])]
    /\ UNCHANGED <<ndebug, m_mutex, lifeVars, core_destroyed, m_pool, m_size, m_capacity, cells, m_acq_mutex, timed, dst, undefined>>

\* acquired_object k;
HandleDefault(t) ==
    /\ At(t, "idle")
    /\ HasFresh(t)
    /\ hnd' = [hnd EXCEPT ![t][FreshId(t)] = HandleNone]
    /\ UNCHANGED <<ndebug, m_mutex, lifeVars, core_destroyed, poolVars, m_acq_mutex, pc, timed, dst, undefined>>

(* ---------------------- acquired_object::operator* -------------------- *)
\* the address points into the arena as it is now
Valid(a) == ~core_destroyed /\ a \in Addr /\ a[1] = m_pool /\ a[2] < m_capacity

\* operator*: throws std::logic_error instead of returning *m_obj
DerefThrows(h) == ~h.m_is_initialized

\* *k = value; storing through a null or stale pointer is undefined
Write(t, k, value) ==
    /\ At(t, "idle")
    /\ hnd[t][k].alive
    /\ ~DerefThrows(hnd[t][k])
    /\ IF Valid(hnd[t][k].m_obj)
       THEN /\ cells' = [cells EXCEPT ![hnd[t][k].m_obj[2]] = value]
            /\ UNCHANGED undefined
       ELSE /\ undefined' = TRUE
            /\ \/ UNCHANGED cells
               \/ \E i \in Indices : cells' = [cells EXCEPT ![i] = value]
    /\ UNCHANGED <<ndebug, m_mutex, lifeVars, core_destroyed, m_pool, m_free, m_size, m_capacity, m_acq_mutex, pc, timed, dst, hnd>>

(* ------------------------ impl::resize / impl::reserve ----------------- *)
OnLoan == \E t \in Threads, k \in HandleIds : Holding(hnd[t][k])

\* a resize that gives the capacity above count back when it shrinks
ResizeTrimsCapacity(t, count, value) ==
    /\ At(t, "idle")
    /\ LockFree
    /\ front
    /\ ~OnLoan
    /\ IF count > m_size
       THEN /\ IF count > m_capacity
               THEN \E b \in ReallocBases :
                      /\ m_pool' = b
                      /\ m_capacity' = count
                      /\ cells' = [i \in Indices |->
                                     IF i >= m_size /\ i < count THEN value ELSE ReallocCells[i]]
               ELSE /\ cells' = [i \in Indices |->
                                   IF i >= m_size /\ i < count THEN value ELSE cells[i]]
                    /\ UNCHANGED <<m_pool, m_capacity>>
       ELSE /\ m_capacity' = count
            /\ UNCHANGED <<m_pool, cells>>
    /\ m_size' = count
    /\ UNCHANGED <<ndebug, m_mutex, lifeVars, core_destroyed, m_free, m_acq_mutex, pc, timed, dst, hnd, undefined>>

\* resize(count) and resize(count, value); resize(count) constructs _Tp().
\* The caller resizes and reserves only while no object is on loan.
Resize(t, count, value) ==
    /\ At(t, "idle")
    /\ LockFree
    /\ front
    /\ ~OnLoan
    /\ IF count > m_size
       THEN /\ IF count > m_capacity
               THEN \E b \in ReallocBases :
                      /\ m_pool' = b
                      /\ m_capacity' = count
                      /\ cells' = [i \in Indices |->
                                     IF i >= m_size /\ i < count THEN value ELSE ReallocCells[i]]
               ELSE /\ cells' = [i \in Indices |->
                                   IF i >= m_size /\ i < count THEN value ELSE cells[i]]
                    /\ UNCHANGED <<m_pool, m_capacity>>
       ELSE \* the loop from m_size up to count runs zero times
            UNCHANGED <<m_pool, m_capacity, cells>>
    /\ m_size' = count
    /\ UNCHANGED <<ndebug, m_mutex, lifeVars, core_destroyed, m_free, m_acq_mutex, pc, timed, dst, hnd, undefined>>

\* a reserve that allocates the new arena and does not record its capacity
ReserveForgetsCapacity(t, new_cap) ==
    /\ At(t, "idle")
    /\ LockFree
    /\ front
    /\ ~OnLoan
    /\ \E b \in Bases : m_pool' = b
    /\ m_capacity' = m_capacity
    /\ cells' = [i \in Indices |-> Uninit]
    /\ UNCHANGED <<ndebug, m_mutex, lifeVars, core_destroyed, m_free, m_size, m_acq_mutex, pc, timed, dst, hnd,
                   undefined>>

\* reserve(new_cap): the arena is released and a new one allocated, whatever
\* new_cap is; nothing is copied
Reserve(t, new_cap) ==
    /\ At(t, "idle")
    /\ LockFree
    /\ front
    /\ ~OnLoan
    /\ \E b \in Bases : m_pool' = b
    /\ m_capacity' = new_cap
    /\ cells' = [i \in Indices |-> Uninit]
    /\ UNCHANGED <<ndebug, m_mutex, lifeVars, core_destroyed, m_free, m_size, m_acq_mutex, pc, timed, dst, hnd,
                   undefined>>

(* ----------------------------- impl::in_use --------------------------- *)
\* in_use() evaluates managed_count() - size() > 0: two calls that each take
\* and release m_mutex, in an order the language leaves unspecified ("ms":
\* managed_count() first, "sm": size() first).  The first call:
InUseFirst(t, order) ==
    /\ At(t, "idle")
    /\ LockFree
    /\ front
    /\ obs' = [obs EXCEPT ![t] = [order |-> order,
                                  first |-> IF order = "ms" THEN managed_count ELSE size,
                                  result |-> "none"]]
    /\ pc' = [pc EXCEPT ![t] = "in_use_second"]
    /\ UNCHANGED <<ndebug, m_mutex, front, copy, core_destroyed, poolVars, m_acq_mutex, timed, dst, hnd, undefined>>

\* the second call, the size_type subtraction and the comparison
InUseSecond(t) ==
    /\ At(t, "in_use_second")
    /\ LockFree
    /\ LET diff == IF obs[t].order = "ms" THEN SubMod(obs[t].first, size)
                                          ELSE SubMod(managed_count, obs[t].first)
       IN obs' = [obs EXCEPT ![t].result = IF diff > 0 THEN "true" ELSE "false"]
    /\ pc' = [pc EXCEPT ![t] = "idle"]
    /\ UNCHANGED <<ndebug, m_mutex, front, copy, core_destroyed, poolVars, m_acq_mutex, timed, dst, hnd, undefined>>

(* ------------------------- object_pool front-end ----------------------- *)
\* ~object_pool: the front-end's shared_ptr<impl> is released; ~impl runs if
\* it was the last one
FrontDestroy(t) ==
    /\ At(t, "idle")
    /\ NoRefs(hnd, FALSE, pc) => LockFree
    /\ front
    /\ \A w \in Threads : pc[w] \in {"idle", "ro_notify"}
    /\ front' = FALSE
    /\ core_destroyed' = (core_destroyed \/ NoRefs(hnd, FALSE, pc))
    /\ UNCHANGED <<ndebug, m_mutex, copy, obs, poolVars, m_acq_mutex, pc, timed, dst, hnd, undefined>>

\* the copy construction threw std::invalid_argument: no second pool exists
CopyThrew == [NoCopy EXCEPT !.state = "invalid_argument"]

\* a second front-end and its impl exist
CopyExists == copy.state = "built"

\* object_pool B(A): make_shared<impl>(*other.m_pool) builds a new impl.
\* impl(const impl&) copies m_size and m_capacity, throws when
\* other.m_size - other.m_free.size() > 0 (size_type arithmetic), otherwise
\* allocates m_capacity slots, copy-constructs the first m_size objects and
\* pushes every one of them on its own free-list.  The free-list of the copy
\* is kept as offsets into the arena of the copy.  With m_size > m_capacity
\* the loop reads and writes outside both arenas.
CopyConstruct(t) ==
    /\ At(t, "idle")
    /\ LockFree
    /\ front
    /\ copy = NoCopy
    /\ IF SubMod(m_size, Len(m_free)) > 0
       THEN /\ copy' = CopyThrew
            /\ UNCHANGED undefined
       ELSE /\ copy' = [state |-> "built",
                        m_size |-> m_size,
                        m_capacity |-> m_capacity,
                        m_free |-> [i \in 1..m_size |-> i - 1],
                        cells |-> [i \in Indices |-> IF i < m_size THEN cells[i] ELSE Uninit]]
            /\ undefined' \in (IF m_size > m_capacity THEN BOOLEAN ELSE {FALSE})
    /\ UNCHANGED <<ndebug, m_mutex, front, obs, core_destroyed, poolVars, m_acq_mutex, pc, timed, dst, hnd>>

\* the m_pool of an impl that has been moved from: nullptr
NullBase == -1

\* object_pool B(std::move(A)): make_shared<impl>(std::move(*other.m_pool))
\* builds a new impl.  impl(impl&&) copies m_size and m_capacity, moves
\* m_free (the moved-from std::stack is left empty) and takes m_pool, and
\* sets other.m_pool = nullptr; other.m_size and other.m_capacity keep their
\* values, and A.m_pool still points to the old impl, as do the handles.
\* The new impl owns the arena that was A's, and its free-list holds
\* addresses into that arena.
PoolMove(t) ==
    /\ At(t, "idle")
    /\ front
    /\ copy = NoCopy
    /\ copy' = [state |-> "moved",
                m_size |-> m_size,
                m_capacity |-> m_capacity,
                m_free |-> m_free,
                cells |-> cells]
    /\ m_free' = << >>
    /\ m_pool' = NullBase
    /\ UNCHANGED <<ndebug, m_mutex, front, obs, core_destroyed, m_size, m_capacity, cells, m_acq_mutex, pc, timed, dst, hnd, undefined>>

\* B.push(value) on the copy; nobody waits on the condition variable of the
\* copy, so its notify_one has no effect
CopyPush(t, value) ==
    /\ At(t, "idle")
    /\ CopyExists
    /\ copy.m_size < MaxSize
    /\ Len(copy.m_free) < MaxFree
    /\ copy' = [state |-> "built",
                m_size |-> copy.m_size + 1,
                m_capacity |-> IF copy.m_size = copy.m_capacity
                               THEN copy.m_capacity * 2 ELSE copy.m_capacity,
                m_free |-> Append(copy.m_free, copy.m_size),
                cells |-> [copy.cells EXCEPT ![copy.m_size] = value]]
    /\ undefined' \in (IF copy.m_size >= copy'.m_capacity THEN BOOLEAN ELSE {FALSE})
    /\ UNCHANGED <<ndebug, m_mutex, front, obs, core_destroyed, poolVars, m_acq_mutex, pc, timed, dst, hnd>>

\* the copy goes out of scope, or the handler of the exception is left
CopyDrop(t) ==
    /\ At(t, "idle")
    /\ copy # NoCopy
    /\ copy' = NoCopy
    /\ UNCHANGED <<ndebug, m_mutex, front, obs, core_destroyed, poolVars, m_acq_mutex, pc, timed, dst, hnd, undefined>>

(* ------------------------------ specifications ------------------------- *)
\* threads that call acquire, acquire_wait and emplace, and that destroy and
\* move their handles
Next ==
    \E t \in Workers :
        \/ Acquire(t)
        \/ \E tl \in BOOLEAN : AwStart(t, tl)
        \/ AwLock(t)
        \/ AwPred(t)
        \/ AwWait(t)
        \/ AwSpurious(t)
        \/ AwTimeout(t)
        \/ AwRelock(t)
        \/ AwFinal(t)
        \/ AwPop(t)
        \/ AwUnlock(t)
        \/ AwNotify(t)
        \/ Push(t, DefaultValue)
        \/ PushNotify(t)
        \/ \E k \in HandleIds : Destroy(t, k)
        \/ RoNotify(t)
        \/ \E j \in HandleIds : MoveConstruct(t, j)
        \/ \E k, j \in HandleIds : MoveAssign(t, k, j)

Spec == Init /\ [][Next]_vars

\* threads that take objects with acquire_wait only, use them and give them back
NextWait ==
    \E t \in Workers :
        \/ \E tl \in BOOLEAN : AwStart(t, tl)
        \/ AwLock(t)
        \/ AwPred(t)
        \/ AwWait(t)
        \/ AwSpurious(t)
        \/ AwTimeout(t)
        \/ AwRelock(t)
        \/ AwFinal(t)
        \/ AwPop(t)
        \/ AwUnlock(t)
        \/ AwNotify(t)
        \/ \E k \in HandleIds, value \in Values : Write(t, k, value)
        \/ \E k \in HandleIds : Destroy(t, k)
        \/ RoNotify(t)

SpecWait == Init /\ [][NextWait]_vars

\* a thread that is inside a call gets to run; a lock that keeps becoming
\* free is eventually given to a thread that asks for it.  No thread has to
\* start a call, and no spurious wake-up has to happen.
Running(t) ==
    \/ AwPred(t) \/ AwWait(t) \/ AwFinal(t) \/ AwPop(t) \/ AwUnlock(t) \/ AwNotify(t)
    \/ PushNotify(t) \/ RoNotify(t)
Locking(t) == AwLock(t) \/ AwRelock(t)

FairSpecWait ==
    /\ SpecWait
    /\ \A t \in Threads : WF_vars(NextWait /\ Running(t)) /\ SF_vars(NextWait /\ Locking(t))

\* one thread that constructs a pool and calls push/emplace, resize, reserve
\* and acquire on it, and that uses, moves and destroys its handles
Main == 1
NextSeq ==
    \/ Acquire(Main)
    \/ Push(Main, DefaultValue)
    \/ PushNotify(Main)
    \/ \E k \in HandleIds : Destroy(Main, k)
    \/ RoNotify(Main)
    \/ \E j \in HandleIds : MoveConstruct(Main, j)
    \/ \E k, j \in HandleIds : MoveAssign(Main, k, j)
    \/ HandleDefault(Main)
    \/ \E count \in 0..MaxSize : Resize(Main, count, DefaultValue)
    \/ \E new_cap \in 0..MaxCap : Reserve(Main, new_cap)

SpecSeq == Init /\ [][NextSeq]_vars

\* one thread that constructs a pool, adds objects, takes them with acquire,
\* reads and writes them, and moves and destroys its handles
NextUse ==
    \/ Acquire(Main)
    \/ \E value \in Values : Push(Main, value)
    \/ PushNotify(Main)
    \/ \E k \in HandleIds : Destroy(Main, k)
    \/ RoNotify(Main)
    \/ \E j \in HandleIds : MoveConstruct(Main, j)
    \/ \E k, j \in HandleIds : MoveAssign(Main, k, j)
    \/ HandleDefault(Main)
    \/ \E k \in HandleIds, value \in Values : Write(Main, k, value)

SpecUse == Init /\ [][NextUse]_vars

\* one thread uses the pool and lets the front-end go out of scope before
\* its handles (examples/predeclare_object.cpp)
NextLife ==
    \/ Acquire(Main)
    \/ \E value \in Values : Push(Main, value)
    \/ PushNotify(Main)
    \/ \E k \in HandleIds : Destroy(Main, k)
    \/ RoNotify(Main)
    \/ \E j \in HandleIds : MoveConstruct(Main, j)
    \/ \E k, j \in HandleIds : MoveAssign(Main, k, j)
    \/ HandleDefault(Main)
    \/ \E k \in HandleIds, value \in Values : Write(Main, k, value)
    \/ FrontDestroy(Main)
SpecLife == Init /\ [][NextLife]_vars

\* one thread uses a pool and copies of it
NextCopy ==
    \/ Acquire(Main)
    \/ Push(Main, DefaultValue)
    \/ PushNotify(Main)
    \/ \E k \in HandleIds : Destroy(Main, k)
    \/ RoNotify(Main)
    \/ \E count \in 0..MaxSize : Resize(Main, count, DefaultValue)
    \/ CopyConstruct(Main)
    \/ CopyPush(Main, DefaultValue)
    \/ CopyDrop(Main)
SpecCopy == Init /\ [][NextCopy]_vars

\* threads that push and call in_use(); no object is ever acquired
NextObs ==
    \E t \in Workers :
        \/ Push(t, DefaultValue)
        \/ PushNotify(t)
        \/ \E order \in {"ms", "sm"} : InUseFirst(t, order)
        \/ InUseSecond(t)
SpecObs == Init /\ [][NextObs]_vars

\* one thread acquires and releases objects while the other threads wait for
\* them in acquire_wait() without a time limit
Waiters == Threads \ {Main}
NextChain ==
    \/ Acquire(Main)
    \/ \E k \in HandleIds : Destroy(Main, k)
    \/ RoNotify(Main)
    \/ \E t \in Waiters :
         \/ AwStart(t, FALSE)
         \/ AwLock(t)
         \/ AwPred(t)
         \/ AwWait(t)
         \/ AwSpurious(t)
         \/ AwRelock(t)
         \/ AwPop(t)
         \/ AwUnlock(t)
         \/ AwNotify(t)
SpecChain == Init /\ [][NextChain]_vars

\* a running thread keeps running; a thread that asks for m_acq_mutex gets it
\* if the mutex is free again and again
FairSpecChain ==
    /\ SpecChain
    /\ \A t \in Threads : WF_vars(NextChain /\ Running(t)) /\ SF_vars(NextChain /\ Locking(t))

\* threads that push step by step, acquire, release, and wait in
\* acquire_wait() without a time limit
NextLock ==
    \E t \in Workers :
        \/ PushCall(t)
        \/ PushLock(t)
        \/ PushBody(t, DefaultValue)
        \/ PushNotify(t)
        \/ Acquire(t)
        \/ \E k \in HandleIds : Destroy(t, k)
        \/ RoNotify(t)
        \/ AwStart(t, FALSE)
        \/ AwLock(t)
        \/ AwPred(t)
        \/ AwWait(t)
        \/ AwSpurious(t)
        \/ AwRelock(t)
        \/ AwPop(t)
        \/ AwUnlock(t)
        \/ AwNotify(t)
SpecLock == Init /\ [][NextLock]_vars

\* a running thread keeps running; a thread that asks for m_acq_mutex or for
\* m_mutex gets it if the mutex is free again and again
RunningLock(t) == Running(t) \/ PushBody(t, DefaultValue)
LockingLock(t) == Locking(t) \/ PushLock(t)
FairSpecLock ==
    /\ SpecLock
    /\ \A t \in Threads : WF_vars(NextLock /\ RunningLock(t)) /\ SF_vars(NextLock /\ LockingLock(t))

\* one thread pushes step by step, acquires and releases while the other
\* threads wait in acquire_wait() without a time limit
NextNotify ==
    \/ PushCall(Main)
    \/ PushLock(Main)
    \/ PushBody(Main, DefaultValue)
    \/ PushNotify(Main)
    \/ Acquire(Main)
    \/ \E k \in HandleIds : Destroy(Main, k)
    \/ RoNotify(Main)
    \/ \E t \in Waiters :
         \/ AwStart(t, FALSE)
         \/ AwLock(t)
         \/ AwPred(t)
         \/ AwWait(t)
         \/ AwSpurious(t)
         \/ AwRelock(t)
         \/ AwPop(t)
         \/ AwUnlock(t)
         \/ AwNotify(t)
SpecNotify == Init /\ [][NextNotify]_vars

\* one thread acquires objects, moves and releases its handles, and
\* move-constructs a second pool from the first
NextMove ==
    \/ Acquire(Main)
    \/ \E k \in HandleIds : Destroy(Main, k)
    \/ RoNotify(Main)
    \/ \E j \in HandleIds : MoveConstruct(Main, j)
    \/ \E k, j \in HandleIds : MoveAssign(Main, k, j)
    \/ HandleDefault(Main)
    \/ PoolMove(Main)
SpecMove == Init /\ [][NextMove]_vars

(* ------------------------------ vocabulary ----------------------------- *)
HandleVars == Threads \X HandleIds
HandleAt(p) == hnd[p[1]][p[2]]
Holders == {p \in HandleVars : Holding(HandleAt(p))}
HeldBy(a) == {p \in Holders : HandleAt(p).m_obj = a}
Pointers == Addr \cup {NullPtr, Indeterminate}
\* a slot is accounted for once for each free-list entry and each holding handle
Tokens(a) == Count(a, m_free) + Cardinality(HeldBy(a))

\* thread t has asked for m_acq_mutex, which another thread holds
BlockedOnAcq(t) ==
    /\ pc[t] \in {"aw_lock", "aw_relock", "aw_relock_to"}
    /\ m_acq_mutex # NoThread
\* thread t is at a step that takes m_mutex, which is held
BlockedOnArena(t) ==
    /\ pc[t] \in {"push_lock", "aw_pred", "aw_final", "aw_pop"}
    /\ ~LockFree
Blocked(t) == BlockedOnAcq(t) \/ BlockedOnArena(t)

(* ================================ claims =============================== *)

\* C1: under any interleaving of threads that call acquire, acquire_wait and
\* push/emplace and that destroy or move their handles, no slot is held by
\* two holding handles at the same time.
C1_NoSlotHeldTwice ==
    \A p, q \in Holders : p # q => HandleAt(p).m_obj # HandleAt(q).m_obj

\* C2: after every operation managed_count() equals size() plus the number
\* of holding handles.
C2_Conservation == managed_count = size + Cardinality(Holders)

\* C3: a slot that was acquired is pushed back onto the free-list exactly
\* once, however its handle is moved before it is destroyed, and a handle
\* that is moved-from or empty returns nothing.  Step by step: a call that is
\* not a push and that pops from a non-empty free-list keeps, for every
\* pointer, the number of free-list entries plus holding handles.
IsPush == \E t \in Threads : pc[t] = "idle" /\ pc'[t] = "push_notify"
IsWildPop == \E t \in Threads : pc[t] = "aw_pop" /\ pc'[t] = "aw_unlock" /\ m_free = << >>
C4_UntimedWaitPopsFreeSlot ==
    [][\A t \in Threads :
          (pc[t] = "aw_pop" /\ ~timed[t] /\ pc'[t] = "aw_unlock")
          => /\ m_free # << >>
             /\ Holding(hnd'[t][dst[t]])
             /\ hnd'[t][dst[t]].m_obj = Top(m_free)
             /\ m_free' = Pop(m_free)]_vars

\* C5: under fair scheduling a thread inside acquire_wait() without a time
\* limit returns with a handle once a slot is free and stays free; a wake-up
\* issued between its predicate check and its parking is not lost.
Waiting(t) ==
    /\ Live
    /\ pc[t] \in {"aw_lock", "aw_pred", "aw_wait", "aw_parked", "aw_relock"}
    /\ ~timed[t]
C5_WaiterEventuallyServed ==
    \A t \in Threads : (Waiting(t) /\ ~empty) ~> (~Waiting(t) \/ empty)

\* C6: with a pool of one object held by thread A, the acquire_wait() of
\* thread B without a time limit does not pop before A has returned the
\* slot; B's handle then refers to that one slot, and what it reads is what
\* was last stored through a handle, since no other step changes the slot.
IsWrite == \E t \in Threads, k \in HandleIds, value \in Values : Write(t, k, value)
C6_BlocksUntilReturned ==
    [][/\ \A b \in Threads :
            (m_size = 1 /\ pc[b] = "aw_pop" /\ ~timed[b] /\ pc'[b] = "aw_unlock")
            => /\ Holders = {}
               /\ Holding(hnd'[b][dst[b]])
               /\ hnd'[b][dst[b]].m_obj = <<m_pool, 0>>
               /\ Valid(hnd'[b][dst[b]].m_obj)
               /\ cells'[hnd'[b][dst[b]].m_obj[2]] = cells[0]
       /\ (m_size = 1 /\ cells'[0] # cells[0]) => IsWrite]_vars

\* C6 witness: B has just popped the slot that A has just returned and
\* whose value had been changed through a handle.
C6_Witness ==
    \E a, b \in Threads :
        /\ a # b
        /\ m_size = 1
        /\ pc[a] = "ro_notify"
        /\ pc[b] = "aw_unlock"
        /\ ~timed[b]
        /\ Holders = {<<b, dst[b]>>}
        /\ hnd[b][dst[b]].m_obj = <<m_pool, 0>>
        /\ cells[0] = MaxVal

\* C7: a timed acquire_wait that finds the free-list empty at its first
\* check parks, and when the time limit elapses with the free-list still
\* empty it returns an empty handle, releases the acquisition-ordering lock
\* and leaves the free-list, the managed count and the capacity unchanged.
C7_TimeoutReturnsEmpty ==
    [][\A t \in Threads :
          /\ (pc[t] = "aw_pred" /\ timed[t] /\ empty /\ pc'[t] # pc[t])
             => (pc'[t] = "aw_wait" /\ UNCHANGED <<m_free, m_size, m_capacity, hnd>>)
          /\ (pc[t] = "aw_final" /\ empty /\ pc'[t] # pc[t])
             => /\ pc'[t] = "idle"
                /\ hnd'[t][dst[t]].alive
                /\ ~Holding(hnd'[t][dst[t]])
                /\ ~HandleBool(hnd'[t][dst[t]])
                /\ m_acq_mutex = t
                /\ m_acq_mutex' = NoThread
                /\ UNCHANGED <<m_free, m_size, m_capacity>>]_vars

\* C7 witness: a thread is back from acquire_wait with an empty handle, the
\* lock is free and the free-list is still empty.
C7_Witness ==
    \E t \in Threads, k \in HandleIds :
        /\ pc[t] = "idle"
        /\ hnd[t][k] = HandleNone
        /\ m_acq_mutex = NoThread
        /\ empty
        /\ m_size > 0

\* C8: acquire() on an empty free-list returns an empty handle and changes
\* nothing of the pool (size() stays 0, managed count and capacity stay);
\* and while the only object of a pool of one is on loan, in_use() is true
\* and the pool converts to false.
C8_ExhaustedAcquire ==
    /\ [][(Acquire(Main) /\ empty)
          => /\ hnd'[Main][FreshId(Main)].alive
             /\ ~HandleBool(hnd'[Main][FreshId(Main)])
             /\ ~Holding(hnd'[Main][FreshId(Main)])
             /\ size' = 0
             /\ UNCHANGED <<m_size, m_capacity, m_pool, cells, undefined>>]_vars
    /\ []((m_size = 1 /\ HeldBy(<<m_pool, 0>>) # {}) => (in_use /\ ~OperatorBool))

\* C8 witness: a pool of one object, the object on loan, and a second handle
\* that a further acquire() has left empty.
C8_Witness ==
    /\ m_size = 1
    /\ pc[Main] = "idle"
    /\ HeldBy(<<m_pool, 0>>) # {}
    /\ \E k \in HandleIds : hnd[Main][k] = HandleNone

\* C9: on an idle pool with a free object acquire() takes the top of the
\* free-list and size() drops by one; destroying the handle puts the same
\* slot back, so size() is what it was, and in_use() is false again.
C9_RoundTrip ==
    /\ [][/\ (Acquire(Main) /\ ~empty)
             => /\ size' = size - 1
                /\ Holding(hnd'[Main][FreshId(Main)])
                /\ m_free = Append(m_free', hnd'[Main][FreshId(Main)].m_obj)
          /\ \A k \in HandleIds :
               (Destroy(Main, k) /\ Holding(hnd[Main][k]))
               => m_free' = Append(m_free, hnd[Main][k].m_obj)]_vars
    /\ [](Holders = {} => ~in_use)

\* C9 witness: every object is back on the free-list after a handle was
\* destroyed, and the call has not finished yet.
C9_Witness ==
    /\ pc[Main] = "ro_notify"
    /\ Holders = {}
    /\ m_size > 0
    /\ size = m_size
    /\ ~in_use

\* C10: in every state reached by construct, push/emplace, resize, reserve,
\* acquire and handle release, with resize and reserve called only while no
\* object is on loan, no slot has more than one holding handle.
C10_NoSlotSharedSeq == \A a \in Addr : Cardinality(HeldBy(a)) <= 1

\* C11: capacity() >= managed_count() in every reachable state, whatever
\* constructor built the pool (count 0 included) and whatever push/emplace,
\* resize and reserve calls followed.
C11_CapacityCoversManaged == capacity >= managed_count

\* C12: every entry of the free-list designates a live managed object (a slot
\* with index below managed_count) that no handle holds, also after resize()
\* to a smaller count on an idle pool.
C12_FreeEntriesLive ==
    \A i \in 1..Len(m_free) : m_free[i][2] < m_size /\ HeldBy(m_free[i]) = {}

\* C13: push()/emplace() on a pool whose managed count equals its capacity c
\* leaves capacity 2*c, and leaves capacity as it is when the managed count
\* is below the capacity.
C13_PushDoublesCapacity ==
    [][IsPush => /\ (m_size = m_capacity => m_capacity' = 2 * m_capacity)
                 /\ (m_size < m_capacity => m_capacity' = m_capacity)]_vars

\* C13 witness: a pool of one object at capacity 1 has just been pushed to:
\* the arena has moved, the capacity is 2 and both objects are free.
C13_Witness ==
    /\ pc[Main] = "push_notify"
    /\ m_size = 2
    /\ m_capacity = 2
    /\ Len(m_free) = 2
    /\ m_free[1][1] # m_pool
    /\ m_free[2] = <<m_pool, 1>>

\* C14: after a growth event (the capacity has become larger) every entry of
\* the free-list refers to a slot of the current arena, so that an object
\* that was free before the growth can be acquired and read afterwards.
C14_GrowthKeepsFreeListValid ==
    [][m_capacity' > m_capacity
       => \A i \in 1..Len(m_free') : m_free'[i][1] = m_pool' /\ m_free'[i][2] < m_capacity']_vars

\* C15: resize(n) and resize(n, value) with n above the managed count append
\* n - managed_count objects and mark them free: afterwards managed_count()
\* is n, size() has grown by n minus the old managed count, and capacity()
\* is at least n.
C15_ResizeUpAddsFreeObjects ==
    [][\A count \in 0..MaxSize :
          (Resize(Main, count, DefaultValue) /\ count > m_size)
          => /\ managed_count' = count
             /\ size' = size + (count - m_size)
             /\ capacity' >= count]_vars

C17_ReserveBelowCapacityIsNoOp ==
    [][\A new_cap \in 0..MaxCap :
          (Reserve(Main, new_cap) /\ new_cap <= m_capacity)
          => UNCHANGED <<m_capacity, m_size, m_free, cells, m_pool>>]_vars

\* C18: reserve(n) with n above the current capacity makes capacity() at
\* least n and changes neither size() nor the managed count.
C18_ReserveAboveCapacityGrows ==
    [][\A new_cap \in 0..MaxCap :
          (Reserve(Main, new_cap) /\ new_cap > m_capacity)
          => /\ capacity' >= new_cap
             /\ size' = size
             /\ managed_count' = managed_count]_vars

\* C18 witness: a pool of two free objects after reserve(3): capacity 3, and
\* the new arena holds no constructed object.
C18_Witness ==
    /\ pc[Main] = "idle"
    /\ Holders = {}
    /\ m_capacity = 3
    /\ m_size = 2
    /\ size = 2
    /\ \A i \in Indices : cells[i] = Uninit

\* C19: a handle that has been moved from, by move construction or by move
\* assignment, is empty afterwards: its boolean test is false and it holds
\* no slot.
C19_MovedFromIsEmpty ==
    [][/\ \A j \in HandleIds :
            MoveConstruct(Main, j)
            => (~HandleBool(hnd'[Main][j]) /\ ~Holding(hnd'[Main][j]))
       /\ \A k, j \in HandleIds :
            MoveAssign(Main, k, j)
            => (~HandleBool(hnd'[Main][j]) /\ ~Holding(hnd'[Main][j]))]_vars

\* C20: dereferencing a handle that holds no slot throws std::logic_error
\* and never yields a reference: a store through operator* happens only
\* through a holding handle.
C20_EmptyDerefThrows ==
    [][\A k \in HandleIds, value \in Values :
          Write(Main, k, value) => Holding(hnd[Main][k])]_vars

\* C21: move-assigning handle j into handle k first returns the slot of k to
\* the free-list, once and with a wake-up, when k holds one, and returns
\* nothing when k is empty; afterwards k holds what j held and j is empty.
C21_MoveAssignReturnsOldSlot ==
    [][\A t \in Threads, k, j \in HandleIds :
          MoveAssign(t, k, j)
          => /\ IF Holding(hnd[t][k])
                THEN m_free' = Append(m_free, hnd[t][k].m_obj) /\ pc'[t] = "ro_notify"
                ELSE m_free' = m_free /\ pc'[t] = "idle"
             /\ hnd'[t][k].m_obj = hnd[t][j].m_obj
             /\ Holding(hnd'[t][k]) = Holding(hnd[t][j])
             /\ HandleBool(hnd'[t][k]) = HandleBool(hnd[t][j])
             /\ ~Holding(hnd'[t][j])
             /\ ~HandleBool(hnd'[t][j])]_vars

\* C21 witness: k held a slot and j another one; after k = std::move(j) the
\* old slot of k is on top of the free-list, the wake-up is pending, k holds
\* a slot and j is empty.
C21_Witness ==
    \E t \in Threads, k, j \in HandleIds :
        /\ k # j
        /\ pc[t] = "ro_notify"
        /\ Holding(hnd[t][k])
        /\ hnd[t][j] = MoveAssignOther(hnd[t][k])
        /\ m_free # << >>
        /\ Top(m_free) \in Addr
        /\ Top(m_free) # hnd[t][k].m_obj

\* C22: the impl and its arena are not torn down while a holding handle
\* exists.  ~impl has run only in states without holding handles, and from
\* the destruction of the front-end on, every step leaves a slot that is held
\* by a handle and valid before the step valid after it, so it can still be
\* dereferenced.
C22_CoreOutlivesHandles ==
    /\ [](core_destroyed => Holders = {})
    /\ [][\A a \in Addr :
            (~front' /\ HeldBy(a) # {} /\ HeldBy(a)' # {} /\ Valid(a)) => Valid(a)']_vars

\* C22 witness: the front-end is gone, the impl is not, and a handle still
\* holds a valid slot with a value written through it.
C22_Witness ==
    /\ ~front
    /\ ~core_destroyed
    /\ ~undefined
    /\ \E p \in Holders :
         /\ Valid(HandleAt(p).m_obj)
         /\ cells[HandleAt(p).m_obj[2]] = MaxVal

\* C23: a copy of the front-end observes the same pool as the original:
\* whenever a copy exists and no call is in progress, size() of the copy
\* equals size() of the original.
C23_CopySharesPool ==
    (CopyExists /\ pc[Main] = "idle") => Len(copy.m_free) = size

\* C24: copy construction throws std::invalid_argument exactly when at least
\* one object of the source is on loan to a holding handle, and it leaves the
\* source pool unchanged either way.
C24_CopyThrowsIffOnLoan ==
    [][\A t \in Threads :
          CopyConstruct(t)
          => /\ (copy' = CopyThrew) <=> (Holders # {})
             /\ poolVars' = poolVars]_vars

\* C25: in every quiescent state reached by construction, push/emplace,
\* resize, reserve, acquire and handle release, in_use() is true exactly when
\* at least one object is on loan to a holding handle.
C25_InUseIffOnLoan ==
    (Live /\ pc[Main] = "idle") => (in_use <=> Holders # {})

\* C26: a freshly constructed pool is idle and fully free.  The default pool
\* has size() 0, managed count 0 and capacity 4; a pool constructed with
\* count n has size() = managed count = capacity() = n; in both cases
\* in_use() is false, and empty() is true exactly when n = 0.
C26_FreshPoolIsFree ==
    Init => /\ InitDefault => /\ size = 0
                              /\ managed_count = 0
                              /\ capacity = 4
                              /\ empty
            /\ \A count \in 0..MaxInit, value \in Values :
                 InitCount(count, value) => /\ size = count
                                            /\ managed_count = count
                                            /\ capacity = count
                                            /\ empty <=> (count = 0)
                                            /\ OperatorBool <=> (count # 0)
            /\ ~in_use
            /\ Holders = {}

\* C26 witness: a pool just constructed with the largest count, every object
\* free.
C26_Witness ==
    /\ Init
    /\ \E value \in Values : InitCount(MaxInit, value)
    /\ size = MaxInit
    /\ \A i \in 1..MaxInit : Valid(m_free[i]) /\ cells[m_free[i][2]] # Uninit

\* C27: push(value) and emplace(args...) add exactly one managed object and
\* mark it free: size() and the managed count each grow by exactly one, the
\* pool is non-empty afterwards (empty() false, boolean conversion true), the
\* new free-list entry is the new object, and the slot recorded in every
\* handle is unchanged.
C27_PushAddsOneFreeObject ==
    [][\A t \in Threads, value \in Values :
          Push(t, value)
          => /\ size' = size + 1
             /\ managed_count' = managed_count + 1
             /\ ~empty'
             /\ OperatorBool'
             /\ Top(m_free') = <<m_pool', m_size>>
             /\ Pop(m_free') = m_free
             /\ hnd' = hnd]_vars

\* C27 witness: a push has just run while a handle holds a slot; the new
\* object is on top of the free-list.
C27_Witness ==
    \E t \in Threads :
        /\ pc[t] = "push_notify"
        /\ Holders # {}
        /\ m_size > 1
        /\ Top(m_free) = <<m_pool, m_size - 1>>

\* C28: free objects are reused in LIFO order.  A successful acquire() takes
\* the entry most recently placed on the free-list, removes exactly that
\* entry, and the handle can be dereferenced to the value last written to
\* the slot: the entry is a constructed slot of the current arena.
C28_AcquireIsLIFO ==
    [][(Acquire(Main) /\ m_free # << >>)
       => /\ hnd'[Main][FreshId(Main)].m_obj = Top(m_free)
          /\ m_free' = Pop(m_free)
          /\ Valid(Top(m_free))
          /\ Top(m_free)[2] < m_size]_vars

\* C29: size() is the number of entries of the free-list, not the managed
\* count; empty() is true exactly when size() is 0; the boolean conversion of
\* the pool is the negation of empty().
C29_SizeCountsFreeList ==
    /\ size = Cardinality(DOMAIN m_free)
    /\ empty <=> (size = 0)
    /\ OperatorBool <=> ~empty

\* C29 witness: a quiescent pool with free objects and objects on loan, so
\* that size() is positive and differs from the managed count.
C29_Witness ==
    /\ \A t \in Threads : pc[t] = "idle"
    /\ Holders # {}
    /\ size > 0
    /\ size < managed_count
    /\ ~empty
    /\ OperatorBool

\* C30: in_use() is evaluated atomically with respect to concurrent
\* push()/emplace(): its result is managed_count - |free-list| > 0 of a
\* single state that existed during the call.  Among threads that only push
\* and call in_use() no object is ever on loan and that difference is 0 in
\* every state, so no call of in_use() returns true.
C30_InUseAtomic ==
    /\ Holders = {}
    /\ ~in_use
    /\ \A t \in Threads : obs[t].result # "true"

\* C31: among threads that only use acquire_wait(), a woken waiter (by a
\* notification or spuriously) takes the acquisition-ordering lock and
\* evaluates the predicate again; it blocks again when the free-list is
\* empty, and it pops only with the lock held and a non-empty free-list.
\* Hence the waiters that return with a slot are as many as the slots that
\* were free: no slot has two holders, and the holding handles plus the free
\* entries are the managed objects.
C31_WokenWaitersRecheck ==
    /\ [](\A t \in Threads : pc[t] = "aw_pop" => (m_free # << >> /\ m_acq_mutex = t))
    /\ [][\A t \in Threads :
            /\ (pc[t] = "aw_relock" /\ pc'[t] # "aw_relock") => pc'[t] = "aw_pred"
            /\ (pc[t] = "aw_pred" /\ pc'[t] # "aw_pred")
               => pc'[t] = (IF empty THEN "aw_wait" ELSE "aw_pop")
            /\ (pc[t] = "aw_wait" /\ pc'[t] # "aw_wait") => pc'[t] = "aw_parked"
            /\ (pc[t] = "aw_pop" /\ pc'[t] = "aw_unlock")
               => /\ Holding(hnd'[t][dst[t]])
                  /\ hnd'[t][dst[t]].m_obj = Top(m_free)
                  /\ m_free' = Pop(m_free)]_vars
    /\ [](\A a \in Addr : Cardinality(HeldBy(a)) <= 1)
    /\ [](Cardinality(Holders) + size = managed_count)

\* C31 witness: both threads were woken while the free-list was empty; one
\* has evaluated the predicate and is about to block again, the other is
\* still taking the lock, and nobody has popped.
C31_Witness ==
    \E t, w \in Threads :
        /\ pc[t] = "aw_wait"
        /\ pc[w] = "aw_relock"
        /\ empty
        /\ Holders # {}
        /\ Cardinality(Holders) = managed_count

\* C32: chained hand-off.  After its pop acquire_wait() releases the
\* acquisition-ordering lock, then issues one notify_one, which wakes exactly
\* one parked waiter if there is one.  Under fair scheduling a waiter that is
\* the only one parked while another thread is about to issue that notify
\* and a slot is free leaves acquire_wait() with a slot, unless the free-list
\* becomes empty first.
C32_ChainedHandOff ==
    /\ [](\A t \in Threads : pc[t] \in {"aw_notify"} => m_acq_mutex # t)
    /\ [][\A t \in Threads :
            /\ AwUnlock(t) => (m_acq_mutex = t /\ m_acq_mutex' = NoThread /\ pc'[t] = "aw_notify")
            /\ (AwNotify(t) /\ Parked # {})
               => \E w \in Parked : /\ pc'[w] = "aw_relock"
                                    /\ \A v \in Parked \ {w} : pc'[v] = "aw_parked"]_vars
    /\ \A t, w \in Threads :
         (Live /\ pc[t] = "aw_notify" /\ Parked = {w} /\ ~timed[w] /\ ~empty)
         ~> (~Waiting(w) \/ empty)

\* C32 witness: two slots were free and one wake-up was delivered; the first
\* waiter has popped and released the lock and is about to notify, the second
\* waiter is still parked, and a slot is still free.
C32_Witness ==
    \E t, w \in Waiters :
        /\ Live
        /\ pc[t] = "aw_notify"
        /\ Holding(hnd[t][dst[t]])
        /\ pc[w] = "aw_parked"
        /\ ~empty
        /\ Valid(Top(m_free))

\* C33: a thread parked inside acquire_wait() holds neither m_mutex nor
\* m_acq_mutex, and the thread that holds m_mutex is inside its critical
\* section, waiting for nothing.  So while waiters are parked acquire() and
\* the release of a handle can be taken as soon as m_mutex is free, and under
\* fair scheduling a push()/emplace() that was called returns (unless the
\* process has died).
C33_ParkedHoldsNoLock ==
    /\ [](\A t \in Threads : pc[t] = "aw_parked" => (m_acq_mutex # t /\ m_mutex # t))
    /\ [](\A t \in Threads : m_mutex = t => pc[t] = "push_body")
    /\ [](\A t \in Workers :
            (Live /\ Parked # {} /\ pc[t] = "idle" /\ LockFree)
            => /\ HasFresh(t) => ENABLED Acquire(t)
               /\ \A k \in HandleIds : hnd[t][k].alive => ENABLED Destroy(t, k))
    /\ \A t \in Workers : (pc[t] = "push_lock") ~> (pc[t] = "idle" \/ ~Live)

\* C33 witness: one thread is parked in acquire_wait() while another is
\* inside the critical section of push.
C33_Witness ==
    \E t, w \in Workers :
        /\ Live
        /\ pc[w] = "aw_parked"
        /\ pc[t] = "push_body"
        /\ m_mutex = t
        /\ m_acq_mutex = NoThread

\* C34: the two locks are taken in the order m_acq_mutex, then m_mutex: a
\* thread that asks for m_acq_mutex does not hold m_mutex.  Hence no state is
\* reachable in which the threads are deadlocked on the two mutexes: whenever
\* a thread is blocked on a mutex, some thread that holds a mutex is not
\* blocked.
C34_LockOrder ==
    /\ \A t \in Threads :
         pc[t] \in {"aw_lock", "aw_relock", "aw_relock_to"} => m_mutex # t
    /\ (Live /\ \E t \in Threads : Blocked(t))
       => \E w \in Threads : (m_mutex = w \/ m_acq_mutex = w) /\ ~Blocked(w)

\* C34 witness: a thread holds m_acq_mutex and is blocked on m_mutex, which
\* is held by a thread inside push.
C34_Witness ==
    \E a, b \in Workers :
        /\ Live
        /\ m_acq_mutex = a
        /\ BlockedOnArena(a)
        /\ m_mutex = b
        /\ pc[b] = "push_body"

\* C35: the release of a handle and push()/emplace() put the slot on the
\* free-list under m_mutex and issue one notify_one only after m_mutex has
\* been released: the thread reaches its notify with the slot already
\* appended and without the mutex, and the notify wakes exactly one parked
\* waiter if there is one, never more.
C35_NotifyAfterUnlock ==
    /\ [](\A t \in Threads : pc[t] \in {"push_notify", "ro_notify"} => m_mutex # t)
    /\ [][\A t \in Threads :
            /\ (pc[t] # "push_notify" /\ pc'[t] = "push_notify")
               => /\ m_mutex = t
                  /\ m_mutex' = NoThread
                  /\ m_free' = Append(m_free, <<m_pool', m_size>>)
            /\ (pc[t] # "ro_notify" /\ pc'[t] = "ro_notify")
               => /\ LockFree /\ m_mutex' = NoThread
                  /\ \E k \in HandleIds :
                       Holding(hnd[t][k]) /\ m_free' = Append(m_free, hnd[t][k].m_obj)
            /\ (pc[t] \in {"push_notify", "ro_notify"} /\ pc'[t] # pc[t])
               => /\ pc'[t] = "idle"
                  /\ m_free' = m_free
                  /\ Cardinality({w \in Parked : pc'[w] # "aw_parked"})
                       = (IF Parked = {} THEN 0 ELSE 1)
                  /\ \A w \in Threads : pc'[w] # pc[w] /\ w # t => pc'[w] = "aw_relock"]_vars

\* C35 witness: a push has appended its slot and released m_mutex, both
\* waiters are parked, and the notify is about to be issued.
C35_Witness ==
    /\ Live
    /\ pc[Main] = "push_notify"
    /\ Cardinality(Parked) = 2
    /\ LockFree
    /\ m_free # << >>
    /\ Top(m_free) = <<m_pool, m_size - 1>>

\* C36: a timed acquire_wait() returns an empty handle only when the time
\* limit has elapsed and the free-list is empty at the final evaluation of
\* the predicate; when the free-list is non-empty at an evaluation of the
\* predicate the call goes on to the pop, and the pop takes the top of a
\* non-empty free-list and leaves the caller with a holding handle for it.
C36_TimedWaitOutcome ==
    [][\A t \in Threads :
          timed[t]
          => /\ (pc[t] \in {"aw_pred", "aw_final"} /\ pc'[t] # pc[t] /\ ~empty)
                => pc'[t] = "aw_pop"
             /\ (pc[t] # "idle" /\ pc'[t] = "idle" /\ ~Holding(hnd'[t][dst[t]]))
                => (pc[t] = "aw_final" /\ empty)
             /\ (pc[t] = "aw_pop" /\ pc'[t] # pc[t])
                => /\ m_free # << >>
                   /\ pc'[t] = "aw_unlock"
                      => /\ Holding(hnd'[t][dst[t]])
                         /\ hnd'[t][dst[t]].m_obj = Top(m_free)]_vars

\* C37: assert(m_is_initialized) in ~acquired_object holds at every
\* destruction of a handle: of the handles the caller destroys (the empty
\* handle of a failed acquire() or of a timed-out acquire_wait() included),
\* of the local that acquire() and acquire_wait() return by move, and of the
\* temporary that acquire_wait() assigns from.
C37_DestructorAssertHolds ==
    [][\A t \in Threads :
          /\ \A k \in HandleIds : Destroy(t, k) => hnd[t][k].m_is_initialized
          /\ (Acquire(t) /\ ~empty) => MoveCtorOther(HandleOf(Top(m_free))).m_is_initialized
          /\ AwNotify(t) => MoveCtorOther(hnd[t][dst[t]]).m_is_initialized
          /\ AwPop(t) => \A a \in TopOutcomes : MoveAssignOther(HandleOf(a)).m_is_initialized]_vars

\* C38: no operation holds m_mutex while user code of T runs: the step of
\* push()/emplace() in which the constructor of T is executed is taken by a
\* thread that does not hold m_mutex.
C38_ConstructOutsideLock ==
    [][\A t \in Threads, value \in Values :
          (PushBody(t, value) /\ cells'[m_size] = value) => m_mutex # t]_vars

\* C39: resize(n) with n below the managed count destroys in place exactly
\* the objects at positions n .. managed_count - 1, leaves the first n
\* objects constructed and unchanged, and does not change the capacity.
C39_ResizeDownDestroysTail ==
    [][\A count \in 0..MaxSize :
          (Resize(Main, count, DefaultValue) /\ count < m_size)
          => /\ \A i \in Indices :
                  /\ (i >= count /\ i < m_size) => cells'[i] = Uninit
                  /\ i < count => (cells'[i] = cells[i] /\ cells'[i] # Uninit)
             /\ capacity' = capacity]_vars

\* C40: conservation across a pool move.  After B is move-constructed from A,
\* B has A's managed count and free objects, and a slot that was on loan at
\* the move is returned to B when its handle is destroyed: in every
\* quiescent state B.size() plus the slots on loan equals B's managed count,
\* and the moved-from A reports in_use() = false.
C40_MoveConservation ==
    (Live /\ copy.state = "moved" /\ pc[Main] = "idle")
    => /\ Len(copy.m_free) + Cardinality(Holders) = copy.m_size
       /\ ~in_use

====
